---- MODULE Spec2Model ----
(***************************************************************************)
(* A model of scraper.py: the per-store parsers (ZumiezScraper,            *)
(* SkateWarehouseScraper, CCSScraper, TacticsScraper), the diff engine     *)
(* compare, the page fetch fetch_page, the state file (load_previous,      *)
(* save_current, safe_write_file) and the orchestration loop of main.      *)
(*                                                                         *)
(* Python values are represented as follows.                               *)
(*   - a dict with string keys is a TLA+ record; d.get(k, default) is      *)
(*     Get(d, k, default); a missing key is a field outside DOMAIN d;      *)
(*   - a list is a sequence; a snapshot {key: [records]} is a function     *)
(*     from a set of partition keys to sequences of records;               *)
(*   - None is the string None; a url is a pair <<origin, path>>, the      *)
(*     string origin + path; a partition key is a pair <<name, part>>, the *)
(*     string f"{name}_{part}".                                            *)
(***************************************************************************)
EXTENDS Integers, Sequences, FiniteSets, TLC

VARIABLES
    pc,         \* position of the modelled call or run
    prev_data,  \* main: prev_data / compare: prev
    curr_data,  \* main: curr_data / compare: curr
    changes,    \* result of compare
    idx,        \* main: number of scrapers already processed
    failed,     \* history: partition keys whose fetch_page returned None
    raised,     \* history: partition keys whose scrape() raised
    scraper,    \* parse: self, a record [name, part]
    n,          \* parse: number of candidates of the markup consumed so far
    seen,       \* parse: the local set seen
    products,   \* parse: the local list products
    offered,    \* history: for each candidate consumed, its canonical url
                \* and whether it passes the filters of the parser
    state_file, \* content of previous_data.json
    saved,      \* what save_current returned
    writes,     \* history: the writes and copies save_current went through
    report,     \* what generate_html_chart returned
    log,        \* history: the steps of main taken so far
    last,       \* history: the run before this one, when it saved its
                \* snapshot: its curr_data and its failed
    fpc,        \* fetch_page: position in the function
    calls,      \* number of calls of fetch_page that have returned
    attempt,    \* fetch_page: attempt
    driver_attempt,      \* fetch_page: driver_attempt
    driver,     \* fetch_page: driver, a browser session or NoDriver
    live,       \* browser sessions created on which quit was not yet called
    navs,       \* history: calls of driver.get in this call of fetch_page
    scroll_attempts,     \* fetch_page: scroll_attempts
    previous_item_count, \* fetch_page: previous_item_count
    pending,    \* fetch_page: what follows the finally clause
    page_source,         \* fetch_page: html, the driver's page_source
    result,     \* what the last call of fetch_page returned
    nav_block,  \* history: attempts that met the stash url after navigation
    scrolled,   \* history: attempts that scrolled
    scroll_block,        \* history: attempt that met the stash url after a
                         \* scroll, -1 when none did
    init_failed,         \* history: attempts whose last try to create the
                         \* browser session met a timeout or driver error
    counts               \* history: current_items of each scroll of this
                         \* attempt that came to the stop test

fetch_vars == <<fpc, calls, attempt, driver_attempt, driver, live, navs,
                scroll_attempts, previous_item_count, pending, page_source,
                result,
                nav_block, scrolled, scroll_block, init_failed, counts>>

vars == <<pc, prev_data, curr_data, changes, idx, failed, raised,
          scraper, n, seen, products, offered, state_file, saved,
          writes, report, log, last, fetch_vars>>

None == "None"

Get(d, k, default) == IF k \in DOMAIN d THEN d[k] ELSE default

Max(S) == CHOOSE x \in S : \A y \in S : y <= x

(***************************************************************************)
(* Bounds of the model.                                                    *)
(***************************************************************************)
MaxRecords == 2     \* records in one snapshot, all partitions together
MaxItems == 2       \* candidates in the markup of one parse call
MaxScrapers == 3    \* scrapers of main's list that a run goes through

(***************************************************************************)
(* Numbers.  float(text) is a number of cents, NaN, or a ValueError        *)
(* (TypeError for None).                                                   *)
(***************************************************************************)
NaN == [kind |-> "nan"]
ValueError == [kind |-> "error"]
Num(c) == [kind |-> "num", cents |-> c]

\* Price texts that match \d+\.\d{2} (and so \d+\.?\d*), with their value.
NumericTexts == {"36.00", "37.00", "40.00"}

float(text) ==
    CASE text = "36.00" -> Num(3600)
      [] text = "37.00" -> Num(3700)
      [] text = "40.00" -> Num(4000)
      [] text = "40.0"  -> Num(4000)
      [] text = "41.11" -> Num(4111)
      [] text = "37.89" -> Num(3789)
      [] text = "38.95" -> Num(3895)
      [] text = "NaN"   -> NaN
      [] OTHER          -> ValueError

(***************************************************************************)
(* compare (scraper.py 711-739)                                            *)
(***************************************************************************)
valid_parts == {"Decks", "Wheels", "Trucks", "Bearings"}

\* prev.get(site, [])
prev_get(prev, site) == IF site \in DOMAIN prev THEN prev[site] ELSE <<>>

Urls(items) == {items[i].url : i \in DOMAIN items}

\* prev_map[url] of prev_map = {i["url"]: i for i in prev_list}: a later
\* record with the same url overwrites an earlier one.
prev_map_at(prev_list, url) ==
    prev_list[Max({i \in DOMAIN prev_list : prev_list[i].url = url})]

\* The keys of prev_map in iteration order: a dict keeps a key at the place
\* of its first insertion.
prev_map_keys(prev_list) ==
    LET first == SelectSeq([i \in DOMAIN prev_list |-> i],
                           LAMBDA i : \A j \in 1..(i - 1) :
                                          prev_list[j].url # prev_list[i].url)
    IN  [k \in DOMAIN first |-> prev_list[first[k]].url]

NoEvent == [type |-> "none"]

item_event_eq(prev_list, it) ==
    IF it.url \notin Urls(prev_list)
    THEN [type |-> "new", item |-> it]
    ELSE LET pi == prev_map_at(prev_list, it.url)
         IN  IF it.price_new = Get(pi, "price_new", None)
             THEN [type |-> "price_change", url |-> it.url,
                   old |-> Get(pi, "price_new", None),
                   new |-> it.price_new, name |-> it.name]
             ELSE NoEvent

item_event_nonew(prev_list, it) ==
    IF it.url \notin Urls(prev_list)
    THEN NoEvent
    ELSE LET pi == prev_map_at(prev_list, it.url)
         IN  IF it.price_new # Get(pi, "price_new", None)
             THEN [type |-> "price_change", url |-> it.url,
                   old |-> Get(pi, "price_new", None),
                   new |-> it.price_new, name |-> it.name]
             ELSE NoEvent

item_event_numeric(prev_list, it) ==
    IF it.url \notin Urls(prev_list)
    THEN [type |-> "new", item |-> it]
    ELSE LET pi == prev_map_at(prev_list, it.url)
         IN  IF float(it.price_new) # float(Get(pi, "price_new", None))
             THEN [type |-> "price_change", url |-> it.url,
                   old |-> Get(pi, "price_new", None),
                   new |-> it.price_new, name |-> it.name]
             ELSE NoEvent

item_event_anyfield(prev_list, it) ==
    IF it.url \notin Urls(prev_list)
    THEN [type |-> "new", item |-> it]
    ELSE LET pi == prev_map_at(prev_list, it.url)
         IN  IF it # pi
             THEN [type |-> "price_change", url |-> it.url,
                   old |-> Get(pi, "price_new", None),
                   new |-> it.price_new, name |-> it.name]
             ELSE NoEvent

\* The body of "for it in items" (717-728): the event one item appends, or
\* NoEvent. prev_map.get(url) is None exactly when url is no key of prev_map
\* (a stored record holds "url", so it is never an empty, falsy dict).
item_event(prev_list, it) ==
    IF it.url \notin Urls(prev_list)
    THEN [type |-> "new", item |-> it]
    ELSE LET pi == prev_map_at(prev_list, it.url)
         IN  IF it.price_new # Get(pi, "price_new", None)
             THEN [type |-> "price_change", url |-> it.url,
                   old |-> Get(pi, "price_new", None),
                   new |-> it.price_new, name |-> it.name]
             ELSE NoEvent

removed_events_skipped(prev_list, items) == <<>>

removed_events_anypart(prev_list, items) ==
    LET keys == prev_map_keys(prev_list)
        gone == SelectSeq(keys, LAMBDA url : url \notin Urls(items))
    IN  [k \in DOMAIN gone |->
            [type |-> "removed", item |-> prev_map_at(prev_list, gone[k])]]

\* The loop "for url, pi in prev_map.items()" (729-736).
removed_events(prev_list, items) ==
    LET keys == prev_map_keys(prev_list)
        gone == SelectSeq(keys, LAMBDA url :
                    /\ url \notin Urls(items)
                    /\ Get(prev_map_at(prev_list, url), "part", "")
                           \in valid_parts)
    IN  [k \in DOMAIN gone |->
            [type |-> "removed", item |-> prev_map_at(prev_list, gone[k])]]

site_diffs_removed_first(prev, curr, site) ==
    LET prev_list == prev_get(prev, site)
        items == curr[site]
        evs == [i \in DOMAIN items |-> item_event(prev_list, items[i])]
    IN  removed_events(prev_list, items)
            \o SelectSeq(evs, LAMBDA e : e.type # "none")

\* diffs of one iteration of "for site, items in curr.items()" (715-736).
site_diffs(prev, curr, site) ==
    LET prev_list == prev_get(prev, site)
        items == curr[site]
        evs == [i \in DOMAIN items |-> item_event(prev_list, items[i])]
    IN  SelectSeq(evs, LAMBDA e : e.type # "none")
            \o removed_events(prev_list, items)

compare_keep_empty(prev, curr) ==
    [site \in DOMAIN curr |-> site_diffs(prev, curr, site)]

compare(prev, curr) ==
    [site \in {s \in DOMAIN curr : site_diffs(prev, curr, s) # <<>>} |->
        site_diffs(prev, curr, site)]

(***************************************************************************)
(* Text.  A name, a price text and a path are strings of a finite          *)
(* vocabulary; "x in s" (substring) and s.lower() are tabulated for it.    *)
(***************************************************************************)
Names == {"Bones Wheels", "Venture Trucks", "Plain Deck"}

\* needle in s, for the needles the parsers look for in a name or a text
\* (of the brand and part words, the ones these names contain)
In(needle, s) ==
    CASE s = "Bones Wheels"   -> needle \in {"Bones", "Wheels"}
      [] s = "Venture Trucks" -> needle \in {"Truck"}
      [] s = "Plain Deck"     -> needle \in {"Deck"}
      [] OTHER                -> FALSE

\* needle in s.lower()
InLower(needle, s) ==
    CASE s = "Bones Wheels"      -> needle \in {"bones", "wheels", "wheel"}
      [] s = "Venture Trucks"    -> needle \in {"truck"}
      [] s = "Plain Deck"        -> needle \in {"deck"}
      [] s = "/products/deck-1"  -> needle \in {"deck", "/products/"}
      [] s = "/products/deck-2"  -> needle \in {"deck", "/products/"}
      [] OTHER                   -> FALSE

(***************************************************************************)
(* Numbers, continued.                                                      *)
(***************************************************************************)
\* int(text) of the promo texts
int(text) ==
    CASE text = "10"  -> 10
      [] text = "100" -> 100

\* str(x) of a float x with at most two decimals, x given in cents
str_float(cents) ==
    CASE cents = 4000 -> "40.0"
      [] cents = 3600 -> "36.0"
      [] cents = 3700 -> "37.0"
      [] cents = 4111 -> "41.11"
      [] cents = 3789 -> "37.89"
      [] cents = 3895 -> "38.95"

\* num / den (den > 0) rounded to the nearest integer, a tie to the even one,
\* as "%.0f" and round() do.  The prices of the model produce no tie.
RoundHalfEven(num, den) ==
    LET q == num \div den
        r == num - q * den
    IN  IF 2 * r < den THEN q
        ELSE IF 2 * r > den THEN q + 1
        ELSE IF q % 2 = 0 THEN q ELSE q + 1

\* calculate_percent_off (239-248).  The result is the text "N/A", the text
\* "nan%", or the text f"{pct}%": nan <= 0 is false, and arithmetic on nan
\* gives nan.  float(None) raises TypeError, float of other text ValueError.
calculate_percent_off(price_new, price_old) ==
    LET new == float(price_new)
        old == float(price_old)
    IN  IF new.kind = "error" \/ old.kind = "error" THEN [kind |-> "N/A"]
        ELSE IF old.kind = "num" /\ old.cents <= 0 THEN [kind |-> "N/A"]
        ELSE IF new.kind = "nan" \/ old.kind = "nan" THEN [kind |-> "nan%"]
        ELSE [kind |-> "pct",
              pct |-> RoundHalfEven((old.cents - new.cents) * 100, old.cents)]

\* The decks filter of every parser (317-327, 401-413, 536-544, 644-652):
\* TRUE when the item is skipped.  float("N/A") raises ValueError (skip);
\* float("nan") is nan and nan < 10 is false (no skip).
deck_skipped(price_new, price_old) ==
    LET percent_off == calculate_percent_off(price_new, price_old)
    IN  CASE percent_off.kind = "N/A"  -> TRUE
          [] percent_off.kind = "nan%" -> FALSE
          [] percent_off.kind = "pct"  -> percent_off.pct < 10

(***************************************************************************)
(* Markup.  The markup of a page is the sequence of the candidates its      *)
(* selector yields (li.ProductCard, a[href], .product-item or the fallback  *)
(* anchors, .browse-grid-item ...).  A candidate records what the           *)
(* sub-selectors of the parsers find in it:                                 *)
(*   link   there is a link element (an anchor with href)                   *)
(*   href   its href attribute, <<origin, path>>; origin "" is a            *)
(*          site-relative href, which starts with "/"                       *)
(*   title  text of the name element (the anchor text before the first      *)
(*          price for SkateWarehouse), None when there is none              *)
(*   alt    alt text of the image, None when there is none                  *)
(*   attr   title / aria-label attribute of the link, "" when there is none *)
(*   sale   text of the current-price element without "$", None when there  *)
(*          is none; orig: the same for the original-price element          *)
(*   promo  the digits before "%" in the promo element, None when none      *)
(*   raises where handling the candidate raises an exception: "no" for      *)
(*          nowhere, "link" for the first statement of the loop body (the   *)
(*          look-up of the link, the text of the anchor), "name" for the    *)
(*          statement that follows the duplicate check (the look-up of the  *)
(*          name, the price pattern)                                        *)
(***************************************************************************)
Stores == {"Zumiez", "SkateWarehouse", "CCS", "Tactics"}

\* the base origin each parser prefixes to a site-relative href
Origin(store) ==
    CASE store = "Zumiez"         -> "https://www.zumiez.com"
      [] store = "SkateWarehouse" -> "https://www.skatewarehouse.com"
      [] store = "CCS"            -> "https://shop.ccs.com"
      [] store = "Tactics"        -> "https://www.tactics.com"

NoLink ==
    [link |-> FALSE, href |-> <<"", "">>, title |-> None, alt |-> None,
     attr |-> "", sale |-> None, orig |-> None, promo |-> None,
     raises |-> "no"]

Hrefs(store) ==
    {<<"", "/products/deck-1">>, <<Origin(store), "/products/deck-1">>,
     <<"", "/products/deck-2">>}

SaleTexts(store) ==
    {None, "36.00", "37.00"}
        \cup (IF store = "Zumiez" THEN {"NaN", "Call"} ELSE {})

\* candidates whose handling raises: otherwise they pass every filter of
\* Decks and Wheels
Failing(store) ==
    { [link |-> TRUE, href |-> h, title |-> t, alt |-> t, attr |-> "",
       sale |-> "36.00", orig |-> "40.00", promo |-> None, raises |-> r] :
        h \in Hrefs(store), t \in {"Bones Wheels", "Plain Deck"},
        r \in {"link", "name"} }

Candidates(store) ==
    {NoLink} \cup Failing(store) \cup
    { [link |-> TRUE, href |-> h, title |-> t, alt |-> a, attr |-> at,
       sale |-> s, orig |-> o, promo |-> pr, raises |-> "no"] :
        h \in Hrefs(store), t \in Names \cup {None}, a \in {None, "Plain Deck"},
        at \in (IF store = "CCS" THEN {"", "Bones Wheels"} ELSE {""}),
        s \in SaleTexts(store), o \in {None, "40.00"},
        pr \in (IF store = "Tactics" THEN {None, "10", "100"} ELSE {None}) }

\* if href.startswith("/"): href = base + href
canonical(href, store) ==
    IF href[1] = "" /\ href[2] # "" THEN <<Origin(store), href[2]>> ELSE href

wheel_brands_any == {"Bones", "Powell", "Spitfire", "OJ", "Deck", "Truck"}

wheel_brands == {"Bones", "Powell", "Spitfire", "OJ"}
truck_brands == {"Independent", "Indy", "Ace"}

\* re.findall over the price texts of a candidate, in document order
numeric_texts(texts) == SelectSeq(texts, LAMBDA t : t \in NumericTexts)

Product(name, url, price_new, price_old, part, store) ==
    [name |-> name, url |-> url, price_new |-> price_new,
     price_old |-> price_old, availability |-> "Check store",
     part |-> part, store |-> store]

Add(st, product) == [st EXCEPT !.products = Append(@, product)]

\* an exception raised in the loop body, and "except Exception: continue"
Raise(st) == [st EXCEPT !.exc = TRUE]

Caught(st) == [st EXCEPT !.exc = FALSE]

Seen_forgotten(st, href) == st

\* seen.add(href)
Seen(st, href) == [st EXCEPT !.seen = @ \cup {href}]

\* The try block of one iteration of "for product in product_grid" of
\* ZumiezScraper.parse (280-339); st = [seen, products, exc].
zumiez_try(part, st, c) ==
    LET href == canonical(c.href, "Zumiez")
        name == IF c.title # None THEN c.title
                ELSE IF c.alt # None THEN c.alt ELSE ""
        st1  == Seen(st, href)
    IN  IF c.raises = "link" THEN Raise(st)
        ELSE IF ~c.link THEN st
        ELSE IF href \in st.seen THEN st
        ELSE IF c.raises = "name" THEN Raise(st1)
        ELSE IF name = "" THEN st1
        ELSE IF part = "Wheels" /\ ~\E b \in wheel_brands : In(b, name) THEN st1
        ELSE IF c.sale = None THEN st1
        ELSE IF part = "Decks" /\ deck_skipped(c.sale, c.orig) THEN st1
        ELSE Add(st1, Product(name, href, c.sale, c.orig, part, "Zumiez"))

\* One iteration of the loop (279-343): the try block and its handler.
zumiez_item(part, st, c) == Caught(zumiez_try(part, st, c))

\* One iteration of "for a in soup.find_all('a', href=True)" of
\* SkateWarehouseScraper.parse (361-426).  The text of the anchor is the
\* title followed by the price texts.  The loop body has no try block: an
\* exception leaves the loop and parse.
skatewarehouse_item(part, st, c) ==
    LET raw    == c.href[2]
        href   == canonical(c.href, "SkateWarehouse")
        text   == c.title
        word   == CASE part = "Wheels"   -> "Wheels"
                    [] part = "Trucks"   -> "Truck"
                    [] part = "Bearings" -> "Bearings"
                    [] part = "Decks"    -> "Deck"
        prices == numeric_texts(<<c.sale, c.orig>>)
        name   == IF c.title # None THEN c.title ELSE ""
        price_old == IF Len(prices) > 1 THEN prices[2] ELSE None
    IN  IF ~c.link THEN st
        ELSE IF c.raises = "link" THEN Raise(st)
        ELSE IF /\ ~\E w \in {"wheels", "truck", "bearings", "deck"} :
                        InLower(w, raw)
                /\ ~\E b \in {"bones", "spitfire", "independent", "bronson"} :
                        InLower(b, raw)
             THEN st
        ELSE IF ~In(word, text) THEN st
        ELSE IF href \in st.seen THEN st
        ELSE IF c.raises = "name" THEN Raise(st)
        ELSE IF prices = <<>> THEN st
        ELSE IF name = "" THEN st
        ELSE IF part = "Wheels" /\ ~\E b \in wheel_brands : In(b, name) THEN st
        ELSE IF part = "Trucks" /\ ~\E b \in truck_brands : In(b, name) THEN st
        ELSE IF part = "Decks" /\ deck_skipped(prices[1], price_old) THEN st
        ELSE Add(Seen(st, href),
                 Product(name, href, prices[1], price_old, part,
                         "SkateWarehouse"))

non_skate_keywords ==
    {"hat", "cap", "shirt", "tee", "hoodie", "jacket", "pant", "short",
     "shoe", "sneaker", "sock", "backpack", "bag", "beanie", "glove"}

\* The try block of one iteration of "for container in product_containers"
\* of CCSScraper.parse (452-559).  The element .product-item__price holds
\* the current and the compare price elements.
ccs_try(part, st, c) ==
    LET href == canonical(c.href, "CCS")
        st1  == Seen(st, href)
        n0   == IF c.title # None THEN c.title
                ELSE IF c.alt # None THEN c.alt ELSE ""
        name == IF n0 # "" THEN n0 ELSE c.attr
        in_name(w) == InLower(w, name)
        in_href(w) == InLower(w, href[2])
        off_part ==
            CASE part = "Decks"    -> ~in_name("deck") /\ ~in_href("deck")
              [] part = "Wheels"   -> ~in_name("wheel") /\ ~in_href("wheel")
              [] part = "Trucks"   -> /\ (~in_name("truck") \/ in_name("trucker"))
                                      /\ ~in_href("truck")
              [] part = "Bearings" -> ~in_name("bearing") /\ ~in_href("bearing")
        current == IF c.sale \in NumericTexts THEN c.sale ELSE None
        compared == IF c.orig \in NumericTexts THEN c.orig ELSE None
        all_prices == numeric_texts(<<c.sale, c.orig>>)
        price_new == IF current # None THEN current
                     ELSE IF all_prices # <<>> THEN all_prices[1] ELSE None
        price_old == IF current = None /\ Len(all_prices) > 1
                     THEN all_prices[2] ELSE compared
    IN  IF c.raises = "link" THEN Raise(st)
        ELSE IF ~c.link THEN st
        ELSE IF href \in st.seen \/ href = <<"", "">> THEN st
        ELSE IF c.raises = "name" THEN Raise(st1)
        ELSE IF name = "" THEN st1
        ELSE IF \E k \in non_skate_keywords : in_name(k) THEN st1
        ELSE IF off_part THEN st1
        ELSE IF price_new = None THEN st1
        ELSE IF part = "Decks" /\ deck_skipped(price_new, price_old) THEN st1
        ELSE IF part = "Wheels" /\ ~\E b \in wheel_brands : In(b, name) THEN st1
        ELSE Add(st1, Product(name, href, price_new, price_old, part, "CCS"))

\* One iteration of the loop (451-563): the try block and its handler.
ccs_item(part, st, c) == Caught(ccs_try(part, st, c))

\* The try block of one iteration of "for container in product_containers"
\* of TacticsScraper.parse (585-667).
tactics_try(part, st, c) ==
    LET href == canonical(c.href, "Tactics")
        st1  == Seen(st, href)
        n0   == IF c.alt # None THEN c.alt ELSE ""
        name == IF n0 # "" THEN n0
                ELSE IF c.title # None THEN c.title ELSE ""
        matched == IF c.sale \in NumericTexts THEN c.sale ELSE None
        \* str(round(float(price_new) / (1 - percent_off_value / 100), 2));
        \* a division by zero is swallowed by the bare except
        promo_old ==
            IF c.promo # None /\ matched # None /\ int(c.promo) # 100
            THEN str_float(RoundHalfEven(float(matched).cents * 100,
                                         100 - int(c.promo)))
            ELSE None
        all_prices == numeric_texts(<<c.sale, c.orig>>)
        price_new == IF matched # None THEN matched
                     ELSE IF all_prices # <<>> THEN all_prices[1] ELSE None
        price_old == IF matched = None /\ Len(all_prices) > 1
                     THEN all_prices[2] ELSE promo_old
    IN  IF c.raises = "link" THEN Raise(st)
        ELSE IF ~c.link THEN st
        ELSE IF href \in st.seen \/ href = <<"", "">> THEN st
        ELSE IF c.raises = "name" THEN Raise(st1)
        ELSE IF name = "" THEN st1
        ELSE IF price_new = None THEN st1
        ELSE IF part = "Decks" /\ deck_skipped(price_new, price_old) THEN st1
        ELSE IF part = "Wheels" /\ ~\E b \in wheel_brands : In(b, name) THEN st1
        ELSE Add(st1, Product(name, href, price_new, price_old, part, "Tactics"))

\* One iteration of the loop (584-671): the try block and its handler.
tactics_item(part, st, c) == Caught(tactics_try(part, st, c))

\* The loop body of self.parse, by the class of self.
parse_item(self, st, c) ==
    CASE self.name = "Zumiez"         -> zumiez_item(self.part, st, c)
      [] self.name = "SkateWarehouse" -> skatewarehouse_item(self.part, st, c)
      [] self.name = "CCS"            -> ccs_item(self.part, st, c)
      [] self.name = "Tactics"        -> tactics_item(self.part, st, c)

RECURSIVE parse_loop(_, _, _)
parse_loop(self, st, html) ==
    IF html = <<>> \/ st.exc THEN st
    ELSE parse_loop(self, parse_item(self, st, Head(html)), Tail(html))

\* What fetch_page returns: NoPage for None, Page(html) for the markup html.
NoPage == [none |-> TRUE]
Page(html) == [html |-> html]

Fresh == [seen |-> {}, products |-> <<>>, exc |-> FALSE]

\* self.parse(html): [] when html is None ("if not html"), else the products
\* the loop collects.
parse(self, page) ==
    IF page = NoPage THEN <<>>
    ELSE parse_loop(self, Fresh, page.html).products

\* self.parse(html) ends with an exception
parse_raises(self, page) ==
    page # NoPage /\ parse_loop(self, Fresh, page.html).exc

(***************************************************************************)
(* SpecParse: one call of self.parse(html) for every scraper of main and    *)
(* every markup of at most MaxItems candidates, the loop taken one          *)
(* candidate at a time.                                                     *)
(***************************************************************************)
Empty == <<>>

\* c alone, on a fresh parser, is returned
accepted(self, c) == parse_item(self, Fresh, c).products # <<>>

ParseIdle ==
    /\ scraper = [name |-> "Zumiez", part |-> "Decks"]
    /\ n = 0 /\ seen = {} /\ products = <<>> /\ offered = <<>>

CompareIdle ==
    /\ prev_data = Empty /\ curr_data = Empty /\ changes = Empty

\* no run before this one, or one that did not save its snapshot
NoRun == [saved |-> FALSE]

MainIdle ==
    /\ idx = 0 /\ failed = {} /\ raised = {}
    /\ state_file = [kind |-> "missing"] /\ saved = None
    /\ writes = <<>> /\ report = None /\ log = <<>>
    /\ last = NoRun

\* driver = None
NoDriver == <<>>

\* fetch_page has not returned yet
Pending == [pending |-> TRUE]

FetchIdle ==
    /\ fpc = "idle" /\ calls = 0 /\ attempt = 0 /\ driver_attempt = 0
    /\ driver = NoDriver /\ live = {} /\ navs = 0
    /\ scroll_attempts = 0 /\ previous_item_count = 0
    /\ pending = "none" /\ page_source = <<>> /\ result = Pending
    /\ nav_block = {} /\ scrolled = {} /\ scroll_block = -1
    /\ init_failed = {} /\ counts = <<>>

InitParse ==
    /\ pc = "parse"
    /\ scraper \in [name : Stores, part : valid_parts]
    /\ n = 0 /\ seen = {} /\ products = <<>> /\ offered = <<>>
    /\ CompareIdle /\ MainIdle /\ FetchIdle

ParseItem ==
    /\ pc = "parse"
    /\ n < MaxItems
    /\ \E c \in Candidates(scraper.name) :
        LET st == parse_item(scraper, [seen |-> seen, products |-> products,
                                      exc |-> FALSE], c)
        IN  /\ seen' = st.seen
            /\ products' = st.products
            /\ pc' = IF st.exc THEN "raised" ELSE "parse"
            /\ offered' = Append(offered,
                    [url |-> canonical(c.href, scraper.name),
                     link |-> c.link,
                     accepted |-> accepted(scraper, c),
                     raises |-> c.raises,
                     added |-> Len(st.products) > Len(products)])
    /\ n' = n + 1
    /\ UNCHANGED <<fetch_vars, last>>
    /\ UNCHANGED <<prev_data, curr_data, changes, idx, failed, raised,
                   scraper, state_file, saved, writes, report, log>>

\* the end of the markup: return products
ParseReturn ==
    /\ pc = "parse"
    /\ pc' = "returned"
    /\ UNCHANGED <<fetch_vars, last>>
    /\ UNCHANGED <<prev_data, curr_data, changes, idx, failed, raised,
                   scraper, n, seen, products, offered, state_file, saved,
                   writes, report, log>>

NextParse == ParseItem \/ ParseReturn

SpecParse == InitParse /\ [][NextParse]_vars

(***************************************************************************)
(* SpecCompare: one call compare(prev, curr) for snapshots of at most       *)
(* MaxRecords records.  A partition holds every url at most once: the       *)
(* lists of curr are built by parse, which skips a url it has seen, and     *)
(* the state file is a snapshot saved by an earlier run.  prev is what a    *)
(* state file may hold: a record may lack "part" or "price_new", its part   *)
(* may be one no scraper has today, its key one curr does not have; curr    *)
(* holds records as parse builds them.                                      *)
(***************************************************************************)
CmpKeys == {<<"Zumiez", "Decks">>, <<"Zumiez", "Wheels">>}

CmpUrls ==
    {<<Origin("Zumiez"), "/products/deck-1">>,
     <<Origin("Zumiez"), "/products/deck-2">>}

CurrRecords ==
    { Product("Plain Deck", u, pn, "80.00", "Decks", "Zumiez") :
        u \in CmpUrls, pn \in {"40.00", "40.0"} }

\* r without field f
Without(r, f) == [g \in DOMAIN r \ {f} |-> r[g]]

\* r as a run stored it that found the page under another name, original
\* price, availability and store
Restocked(r) ==
    [r EXCEPT !.name = "Bones Wheels", !.price_old = "90.00",
              !.availability = "In stock", !.store = "CCS"]

PrevRecords ==
    LET full == { Product("Plain Deck", u, pn, "80.00", pt, "Zumiez") :
                    u \in CmpUrls, pn \in {"40.00", "40.0"},
                    pt \in {"Decks", "Shoes"} }
    IN  full \cup {Without(r, "part") : r \in full}
             \cup {Without(r, "price_new") : r \in full}
             \cup {Restocked(r) : r \in {f \in full : f.part = "Shoes"}}

Lists(R, len) == UNION {[1..k -> R] : k \in 0..len}

DistinctUrls(items) ==
    \A i, j \in DOMAIN items : i # j => items[i].url # items[j].url

RECURSIVE Total(_, _)
Total(f, K) ==
    IF K = {} THEN 0
    ELSE LET k == CHOOSE x \in K : TRUE
         IN  Len(f[k]) + Total(f, K \ {k})

\* the snapshots over CmpKeys with lists of L, of at most max records
Snapshots(L, max) ==
    UNION { {f \in [K -> L] : Total(f, K) <= max} : K \in SUBSET CmpKeys }

InitCompare ==
    /\ pc = "compare"
    /\ prev_data \in Snapshots({l \in Lists(PrevRecords, MaxRecords) :
                                    DistinctUrls(l)}, MaxRecords)
    /\ curr_data \in Snapshots({l \in Lists(CurrRecords, MaxRecords) :
                                    DistinctUrls(l)}, MaxRecords)
    /\ changes = Empty
    /\ ParseIdle /\ MainIdle /\ FetchIdle

\* changes = compare(prev, curr)
Compare ==
    /\ pc = "compare"
    /\ changes' = compare(prev_data, curr_data)
    /\ pc' = "compared"
    /\ log' = Append(log, "compare")
    /\ UNCHANGED <<fetch_vars, last>>
    /\ UNCHANGED <<prev_data, curr_data, idx, failed, raised, scraper, n,
                   seen, products, offered, state_file, saved, writes,
                   report>>

NextCompare == Compare

SpecCompare == InitCompare /\ [][NextCompare]_vars

(***************************************************************************)
(* Spec: one run of main (1509-1558) over the first MaxScrapers scrapers    *)
(* of its list.                                                             *)
(***************************************************************************)
\* the list scrapers of main (1510-1530), each with self.name and self.part
scrapers ==
    << [name |-> "Zumiez", part |-> "Decks"],
       [name |-> "Zumiez", part |-> "Wheels"],
       [name |-> "Zumiez", part |-> "Trucks"],
       [name |-> "Zumiez", part |-> "Bearings"],
       [name |-> "SkateWarehouse", part |-> "Decks"],
       [name |-> "SkateWarehouse", part |-> "Wheels"],
       [name |-> "SkateWarehouse", part |-> "Trucks"],
       [name |-> "SkateWarehouse", part |-> "Bearings"],
       [name |-> "CCS", part |-> "Decks"],
       [name |-> "CCS", part |-> "Wheels"],
       [name |-> "CCS", part |-> "Trucks"],
       [name |-> "CCS", part |-> "Bearings"],
       [name |-> "Tactics", part |-> "Decks"],
       [name |-> "Tactics", part |-> "Wheels"],
       [name |-> "Tactics", part |-> "Trucks"],
       [name |-> "Tactics", part |-> "Bearings"] >>

Configured == SubSeq(scrapers, 1, MaxScrapers)

\* key = f"{scraper.name}_{scraper.part}"
Key(self) == <<self.name, self.part>>

ConfiguredKeys == {Key(Configured[i]) : i \in DOMAIN Configured}

\* a candidate that passes the filters of every scraper of Configured, and
\* a second one
Card(path, sale) ==
    [link |-> TRUE, href |-> <<"", path>>, title |-> "Bones Wheels",
     alt |-> None, attr |-> "", sale |-> sale, orig |-> "40.00",
     promo |-> None, raises |-> "no"]

\* the markups a fetched page may have in a run
MainMarkups ==
    { <<>>,
      <<Card("/products/deck-1", "36.00")>>,
      <<Card("/products/deck-1", "36.00"), Card("/products/deck-2", "37.00")>> }

\* what a state file may hold for partition key: records as a run saved
\* them, among them one of a part no scraper has today
StoredLists(key) ==
    LET r1 == Product("Bones Wheels",
                      <<Origin(key[1]), "/products/deck-1">>,
                      "36.00", "40.00", key[2], key[1])
        r2 == Product("Bones Wheels",
                      <<Origin(key[1]), "/products/deck-2">>,
                      "35.00", "40.00", "Shoes", key[1])
    IN  {<<>>, <<r1>>, <<r1, r2>>}

StoredKeys ==
    {<<"Zumiez", "Decks">>, <<"Zumiez", "Wheels">>, <<"Zumiez", "Shoes">>}

\* the state file: absent, unreadable or no JSON, or the JSON of a snapshot
Missing == [kind |-> "missing"]
Corrupt == [kind |-> "corrupt"]

\* a string of a JSON document: the text between the quotes, unescaped
JString(s) == [json |-> "string", s |-> s]

json_dumps_prices(data) ==
    [k \in DOMAIN data |->
        [i \in DOMAIN data[k] |->
            [f \in DOMAIN data[k][i] |->
                IF f = "price_new" /\ float(data[k][i][f]).kind = "num"
                THEN JString(str_float(float(data[k][i][f]).cents))
                ELSE JString(data[k][i][f])]]]

\* json.dumps(data, indent=2) (705): an object of arrays of objects, in
\* the order of data; every value of a record is a str and is written as
\* a JSON string
json_dumps(data) ==
    [k \in DOMAIN data |->
        [i \in DOMAIN data[k] |->
            [f \in DOMAIN data[k][i] |-> JString(data[k][i][f])]]]

\* json.load(f) (696) of such a document: dicts, lists and strs
json_load(doc) ==
    [k \in DOMAIN doc |->
        [i \in DOMAIN doc[k] |->
            [f \in DOMAIN doc[k][i] |-> doc[k][i][f].s]]]

\* the file that holds json.dumps(data)
Json(data) == [kind |-> "json", data |-> json_dumps(data)]

StateFiles ==
    {Missing, Corrupt} \cup
    UNION { { Json(f) :
                f \in { g \in [K -> UNION {StoredLists(k) : k \in K}] :
                          \A k \in K : g[k] \in StoredLists(k) } } :
            K \in SUBSET StoredKeys }

\* how a call ends: it returns a value, or an exception leaves it
Returns(v) == [kind |-> "return", value |-> v]

Raises == [kind |-> "raise"]

\* the try block of load_previous (694-697): {} when there is no file,
\* what json.load gives when there is one; open or json.load raises on an
\* unreadable file and on one that is no JSON
load_previous_try(file) ==
    CASE file.kind = "missing" -> Returns(Empty)
      [] file.kind = "corrupt" -> Raises
      [] file.kind = "json"    -> Returns(json_load(file.data))

load_previous_nocatch(file) == load_previous_try(file)

\* load_previous (692-700): the try block, and {} when it raises
load_previous(file) ==
    IF load_previous_try(file).kind = "raise" THEN Returns(Empty)
    ELSE load_previous_try(file)

\* What the file system does to one call of safe_write_file: the write to
\* the path succeeds or raises IOError / PermissionError, the write to /tmp
\* and the copy back succeed or raise; cut: a write or copy that raises
\* leaves the file at the path cut short instead of untouched.
WriteEnvs ==
    { e \in [primary : {"ok", "OSError"}, tmp : {"ok", "error"},
             copy : {"ok", "error"}, cut : BOOLEAN] :
        \* a step the call does not come to is left at "ok", and nothing
        \* is cut when nothing raises
        /\ e.primary = "ok" => e.tmp = "ok"
        /\ (e.primary = "ok" \/ e.tmp = "error") => e.copy = "ok"
        /\ (e.primary = "ok" \/ (e.tmp = "ok" /\ e.copy = "ok")) => ~e.cut }

Step(op, ok, content) == [op |-> op, ok |-> ok, content |-> content]

Written(value, file, steps) ==
    [kind |-> "return", value |-> value, file |-> file, steps |-> steps]

safe_write_file_nofallback(file, content, env) ==
    IF env.primary = "ok"
    THEN Written("True", content, <<Step("primary", TRUE, content)>>)
    ELSE Written("False", IF env.cut THEN Corrupt ELSE file,
                 <<Step("primary", FALSE, content)>>)

safe_write_file_copy_unchecked(file, content, env) ==
    LET left    == IF env.cut THEN Corrupt ELSE file
        primary == Step("primary", env.primary = "ok", content)
        tmp     == Step("tmp", env.tmp = "ok", content)
        copy    == Step("copy", env.copy = "ok", content)
    IN  IF env.primary = "ok"
        THEN Written("True", content, <<primary>>)
        ELSE IF env.tmp # "ok"
        THEN Written("False", left, <<primary, tmp>>)
        ELSE IF env.copy = "ok"
        THEN Written("True", content, <<primary, tmp, copy>>)
        ELSE Written("True", left, <<primary, tmp, copy>>)

\* safe_write_file(filename, content) (27-49), file being what the path
\* holds before the call
safe_write_file(file, content, env) ==
    LET left    == IF env.cut THEN Corrupt ELSE file
        primary == Step("primary", env.primary = "ok", content)
        tmp     == Step("tmp", env.tmp = "ok", content)
        copy    == Step("copy", env.copy = "ok", content)
    IN  IF env.primary = "ok"
        THEN Written("True", content, <<primary>>)
        ELSE IF env.tmp # "ok"
        THEN Written("False", left, <<primary, tmp>>)
        ELSE IF env.copy = "ok"
        THEN Written("True", content, <<primary, tmp, copy>>)
        ELSE Written("False", left, <<primary, tmp, copy>>)

\* save_current(data) (703-708): the write of json.dumps(data), and False
\* when it raises
save_current(file, data, env) ==
    LET r == safe_write_file(file, Json(data), env)
    IN  IF r.kind = "raise"
        THEN Written("False", file, <<>>)
        ELSE r

\* generate_html_chart(data, changes) (741-1506): the page is built from
\* data and changes and written with safe_write_file (1503)
generate_html_chart(data, diffs, env) ==
    safe_write_file(Missing, [kind |-> "html"], env)

store_items_nonempty(curr, key, items) ==
    IF items = <<>> THEN curr
    ELSE [k \in DOMAIN curr \cup {key} |-> IF k = key THEN items ELSE curr[k]]

\* curr_data[key] = items (1540, 1544)
store_items(curr, key, items) ==
    [k \in DOMAIN curr \cup {key} |-> IF k = key THEN items ELSE curr[k]]

main_except_reraise(exc) == "raise"

\* "except Exception as e" of the loop of main (1542-1544)
main_except(exc) == "continue"

Init ==
    /\ pc = "load"
    /\ state_file \in StateFiles
    /\ prev_data = Empty /\ curr_data = Empty /\ changes = Empty
    /\ idx = 0 /\ failed = {} /\ raised = {} /\ saved = None
    /\ writes = <<>> /\ report = None /\ log = <<>>
    /\ last = NoRun
    /\ ParseIdle /\ FetchIdle

\* prev_data = load_previous(); curr_data = {} (1532-1533)
Load ==
    /\ pc = "load"
    /\ LET r == load_previous(state_file)
       IN  IF r.kind = "return"
           THEN prev_data' = r.value /\ pc' = "scrape"
           ELSE prev_data' = prev_data /\ pc' = "crashed"
    /\ curr_data' = Empty
    /\ log' = Append(log, "load")
    /\ UNCHANGED <<fetch_vars, last>>
    /\ UNCHANGED <<changes, idx, failed, raised, scraper, n, seen, products,
                   offered, state_file, saved, writes, report>>

\* what follows the loop body: the next scraper, or compare
AfterScrape_early == "compare"

AfterScrape == IF idx + 1 < Len(Configured) THEN "scrape" ELSE "compare"

\* One iteration of "for scraper in scrapers" (1535-1544) in which
\* fetch_page returns None: parse returns [] for it.
ScrapeNoPage ==
    /\ pc = "scrape" /\ idx < Len(Configured)
    /\ LET self == Configured[idx + 1]
       IN  /\ curr_data' = store_items(curr_data, Key(self),
                                       parse(self, NoPage))
           /\ failed' = failed \cup {Key(self)}
    /\ idx' = idx + 1
    /\ pc' = AfterScrape
    /\ log' = Append(log, "scrape")
    /\ UNCHANGED <<fetch_vars, last>>
    /\ UNCHANGED <<prev_data, changes, raised, scraper, n, seen, products,
                   offered, state_file, saved, writes, report>>

\* One iteration in which fetch_page returns the markup of the page; an
\* exception that leaves parse is handled by the except clause.
ScrapePage ==
    /\ pc = "scrape" /\ idx < Len(Configured)
    /\ \E markup \in MainMarkups :
        LET self == Configured[idx + 1]
        IN  IF ~parse_raises(self, Page(markup))
            THEN /\ curr_data' = store_items(curr_data, Key(self),
                                             parse(self, Page(markup)))
                 /\ raised' = raised
                 /\ pc' = AfterScrape
            ELSE IF main_except("Exception") = "continue"
            THEN /\ curr_data' = store_items(curr_data, Key(self), <<>>)
                 /\ raised' = raised \cup {Key(self)}
                 /\ pc' = AfterScrape
            ELSE /\ curr_data' = curr_data
                 /\ raised' = raised \cup {Key(self)}
                 /\ pc' = "crashed"
    /\ idx' = idx + 1
    /\ log' = Append(log, "scrape")
    /\ UNCHANGED <<fetch_vars, last>>
    /\ UNCHANGED <<prev_data, changes, failed, scraper, n, seen,
                   products, offered, state_file, saved, writes, report>>

\* One iteration in which scraper.scrape() raises: the except clause
\* (1542-1544).
ScrapeRaises ==
    /\ pc = "scrape" /\ idx < Len(Configured)
    /\ LET self == Configured[idx + 1]
       IN  /\ raised' = raised \cup {Key(self)}
           /\ IF main_except("Exception") = "continue"
              THEN /\ curr_data' = store_items(curr_data, Key(self), <<>>)
                   /\ pc' = AfterScrape
              ELSE /\ curr_data' = curr_data
                   /\ pc' = "crashed"
    /\ idx' = idx + 1
    /\ log' = Append(log, "scrape")
    /\ UNCHANGED <<fetch_vars, last>>
    /\ UNCHANGED <<prev_data, changes, failed, scraper, n, seen, products,
                   offered, state_file, saved, writes, report>>

\* save_current(curr_data) (1555)
Save ==
    /\ pc = "compared"
    /\ \E env \in WriteEnvs :
        LET r == save_current(state_file, curr_data, env)
        IN  /\ state_file' = r.file
            /\ writes' = r.steps
            /\ IF r.kind = "return"
               THEN saved' = r.value /\ pc' = "saved"
               ELSE saved' = saved /\ pc' = "crashed"
    /\ log' = Append(log, "save")
    /\ UNCHANGED <<fetch_vars, last>>
    /\ UNCHANGED <<prev_data, curr_data, changes, idx, failed, raised,
                   scraper, n, seen, products, offered, report>>

\* generate_html_chart(curr_data, changes) and the end of main (1556-1558)
Report ==
    /\ pc = "saved"
    /\ \E env \in WriteEnvs :
        LET r == generate_html_chart(curr_data, changes, env)
        IN  IF r.kind = "return"
            THEN report' = r.value /\ pc' = "done"
            ELSE report' = report /\ pc' = "crashed"
    /\ log' = Append(log, "report")
    /\ UNCHANGED <<fetch_vars, last>>
    /\ UNCHANGED <<prev_data, curr_data, changes, idx, failed, raised,
                   scraper, n, seen, products, offered, state_file, saved,
                   writes>>

Next ==
    \/ Load
    \/ ScrapeNoPage
    \/ ScrapePage
    \/ ScrapeRaises
    \/ Compare
    \/ Save
    \/ Report

Spec == Init /\ [][Next]_vars

\* main is one sequential thread: it always takes its next step
SpecLive == Spec /\ WF_vars(Next)

(***************************************************************************)
(* SpecRuns: runs of main one after the other on the same state file.  A   *)
(* run starts when the one before it has ended; nothing else writes the    *)
(* state file between two runs.                                            *)
(***************************************************************************)
\* the state file before the first run: none, or one with a record
RunFiles ==
    { Missing,
      Json([k \in {<<"Zumiez", "Decks">>} |->
              <<Product("Bones Wheels",
                        <<Origin("Zumiez"), "/products/deck-1">>,
                        "37.00", "40.00", "Decks", "Zumiez")>>]) }

InitRuns ==
    /\ pc = "load"
    /\ state_file \in RunFiles
    /\ prev_data = Empty /\ curr_data = Empty /\ changes = Empty
    /\ idx = 0 /\ failed = {} /\ raised = {} /\ saved = None
    /\ writes = <<>> /\ report = None /\ log = <<>>
    /\ last = NoRun
    /\ ParseIdle /\ FetchIdle

\* main() is called again (1560-1561): every local of main starts afresh,
\* the state file is what the run before left
Rerun ==
    /\ pc = "done"
    /\ pc' = "load"
    /\ last' = IF saved = "True"
               THEN [saved |-> TRUE, curr |-> curr_data, failed |-> failed]
               ELSE NoRun
    /\ prev_data' = Empty /\ curr_data' = Empty /\ changes' = Empty
    /\ idx' = 0 /\ failed' = {} /\ raised' = {} /\ saved' = None
    /\ writes' = <<>> /\ report' = None /\ log' = <<>>
    /\ UNCHANGED fetch_vars
    /\ UNCHANGED <<scraper, n, seen, products, offered, state_file>>

NextRuns ==
    \/ Load
    \/ ScrapeNoPage
    \/ ScrapePage
    \/ ScrapeRaises
    \/ Compare
    \/ Save
    \/ Report
    \/ Rerun

SpecRuns == InitRuns /\ [][NextRuns]_vars

(***************************************************************************)
(* SpecFetch: the calls fetch_page(url) of a run, one for each scraper of   *)
(* Configured (main 1535-1539, Scraper.scrape 257-259), a call taken one    *)
(* statement group at a time.  What the browser and the site do is chosen   *)
(* freely: every call on the driver may raise, the url may hold "stash"     *)
(* after the navigation and after each scroll.  The statements before the   *)
(* first try block (UserAgent, Options) are taken not to raise.             *)
(***************************************************************************)
max_retries == 3

driver_attempts == 3

max_scroll_attempts == 3

\* what len(driver.find_elements(...)) may give
ItemCounts == {0, 1, 2}

run_vars == <<pc, prev_data, curr_data, changes, idx, failed, raised,
              scraper, n, seen, products, offered, state_file, saved,
              writes, report, log, last>>

\* the browser session webdriver.Chrome(...) creates in attempt a of call c
Session(c, a) == <<c, a>>

quit_skipped(sessions, d) == sessions

\* driver.quit(): quit is called on session d
quit(sessions, d) == sessions \ {d}

retry_never(a) == FALSE

\* "if attempt < max_retries - 1" (119, 221)
retry(a) == a < max_retries - 1

init_retry_always(d) == TRUE

\* "if driver_attempt < driver_attempts - 1" of both handlers of the
\* creation of the driver (138, 148): sleep and try again, else raise
init_retry(d) == d < driver_attempts - 1

stop_scrolling_equal(current_items, previous) == current_items = previous

\* "if current_items == previous_item_count and current_items > 0" (202):
\* break
stop_scrolling(current_items, previous) ==
    current_items = previous /\ current_items > 0

finally_quits_never(d) == FALSE

\* "if driver:" of the finally clause (227)
finally_quits(d) == d # NoDriver

on_stash_after_get_return == "return_none"

\* what follows driver.quit() when the url holds "stash" after the
\* navigation: continue (174)
on_stash_after_get == "continue"

\* what follows driver.quit() when the url holds "stash" after a scroll:
\* return None (200)
on_stash_after_scroll == "return_none"

\* return value
FetchReturn(value) ==
    /\ fpc' = "idle"
    /\ result' = value
    /\ calls' = calls + 1

\* the next iteration of "for attempt in range(max_retries)"; the end of the
\* loop is the end of the function, which returns None
NextAttempt ==
    IF attempt + 1 < max_retries
    THEN /\ attempt' = attempt + 1
         /\ fpc' = "attempt"
         /\ UNCHANGED <<result, calls>>
    ELSE /\ attempt' = attempt
         /\ FetchReturn(NoPage)

InitFetch ==
    /\ pc = "fetch"
    /\ ParseIdle /\ CompareIdle /\ MainIdle /\ FetchIdle

\* html = fetch_page(self.url) (258): the call, with fresh locals
FetchCall ==
    /\ fpc = "idle" /\ calls < Len(Configured)
    /\ fpc' = "attempt"
    /\ attempt' = 0 /\ driver' = NoDriver /\ pending' = "none"
    /\ result' = Pending
    /\ driver_attempt' = 0 /\ scroll_attempts' = 0
    /\ previous_item_count' = 0 /\ page_source' = <<>>
    /\ navs' = 0 /\ nav_block' = {} /\ scrolled' = {} /\ scroll_block' = -1
    /\ init_failed' = {} /\ counts' = <<>>
    /\ UNCHANGED <<calls, live>>
    /\ UNCHANGED run_vars

\* The head of the loop body (78-125): options, and the look-up of
\* chromedriver in its try block.
FindChromeDriver ==
    /\ fpc = "attempt"
    /\ \/ /\ fpc' = "init"
          /\ driver' = NoDriver
          /\ driver_attempt' = 0
          /\ UNCHANGED <<attempt, result, calls>>
       \/ /\ IF retry(attempt)
             THEN /\ attempt' = attempt + 1
                  /\ fpc' = "attempt"
                  /\ UNCHANGED <<result, calls>>
             ELSE /\ attempt' = attempt
                  /\ FetchReturn(NoPage)
          /\ UNCHANGED <<driver, driver_attempt>>
    /\ UNCHANGED <<live, navs, scroll_attempts, previous_item_count, pending,
                   page_source, nav_block, scrolled, scroll_block,
                   init_failed, counts>>
    /\ UNCHANGED run_vars

\* One iteration of "for driver_attempt in range(driver_attempts)"
\* (129-153).
InitWebDriver ==
    /\ fpc = "init"
    /\ \/ /\ driver' = Session(calls, attempt)
          /\ live' = live \cup {Session(calls, attempt)}
          /\ fpc' = "get"
          /\ UNCHANGED <<driver_attempt, init_failed>>
       \/ \* TimeoutException, WebDriverException
          /\ IF init_retry(driver_attempt)
             THEN /\ driver_attempt' = driver_attempt + 1
                  /\ fpc' = "init"
                  /\ UNCHANGED init_failed
             ELSE /\ driver_attempt' = driver_attempt
                  /\ fpc' = "except"
                  /\ init_failed' = init_failed \cup {attempt}
          /\ UNCHANGED <<driver, live>>
       \/ \* any other exception
          /\ fpc' = "except"
          /\ UNCHANGED <<driver, driver_attempt, live, init_failed>>
    /\ UNCHANGED <<calls, attempt, navs, scroll_attempts, previous_item_count,
                   pending, page_source, result, nav_block, scrolled,
                   scroll_block, counts>>
    /\ UNCHANGED run_vars

\* driver.get(url), the wait for readyState and the check of the url
\* (159-174).
Navigate ==
    /\ fpc = "get"
    /\ \/ \* set_page_load_timeout raises
          /\ fpc' = "except"
          /\ UNCHANGED <<navs, live, pending, nav_block, scroll_attempts,
                         previous_item_count>>
       \/ \* driver.get or the wait raises
          /\ navs' = navs + 1
          /\ fpc' = "except"
          /\ UNCHANGED <<live, pending, nav_block, scroll_attempts,
                         previous_item_count>>
       \/ \* "stash" in the url: driver.quit(), which may raise, and continue
          /\ navs' = navs + 1
          /\ nav_block' = nav_block \cup {attempt}
          /\ live' = quit(live, driver)
          /\ \/ pending' = on_stash_after_get /\ fpc' = "finally"
             \/ pending' = pending /\ fpc' = "except"
          /\ UNCHANGED <<scroll_attempts, previous_item_count>>
       \/ /\ navs' = navs + 1
          /\ fpc' = "scroll"
          /\ scroll_attempts' = 0
          /\ previous_item_count' = 0
          /\ UNCHANGED <<live, pending, nav_block>>
    /\ UNCHANGED <<calls, attempt, driver_attempt, driver, page_source, result,
                   scrolled, scroll_block, init_failed, counts>>
    /\ UNCHANGED run_vars

\* One iteration of "while scroll_attempts < max_scroll_attempts" (187-207).
Scroll ==
    /\ fpc = "scroll"
    /\ scroll_attempts < max_scroll_attempts
    /\ scrolled' = scrolled \cup {attempt}
    /\ \/ \* execute_script or find_elements raises
          /\ fpc' = "except"
          /\ UNCHANGED <<live, pending, scroll_block, scroll_attempts,
                         previous_item_count, counts>>
       \/ \* "stash" in the url: driver.quit(), which may raise, and return
          /\ scroll_block' = attempt
          /\ live' = quit(live, driver)
          /\ \/ pending' = on_stash_after_scroll /\ fpc' = "finally"
             \/ pending' = pending /\ fpc' = "except"
          /\ UNCHANGED <<scroll_attempts, previous_item_count, counts>>
       \/ \E current_items \in ItemCounts :
            /\ counts' = Append(counts, current_items)
            /\ IF stop_scrolling(current_items, previous_item_count)
               THEN /\ fpc' = "source"
                    /\ UNCHANGED <<scroll_attempts, previous_item_count>>
               ELSE /\ previous_item_count' = current_items
                    /\ scroll_attempts' = scroll_attempts + 1
                    /\ fpc' = IF scroll_attempts + 1 < max_scroll_attempts
                              THEN "scroll" ELSE "source"
            /\ UNCHANGED <<live, pending, scroll_block>>
    /\ UNCHANGED <<calls, attempt, driver_attempt, driver, navs, page_source,
                   result, nav_block, init_failed>>
    /\ UNCHANGED run_vars

\* The scroll back, html = driver.page_source and return html (209-217).
PageSource ==
    /\ fpc = "source"
    /\ \/ \E markup \in MainMarkups :
            /\ page_source' = markup
            /\ pending' = "return_html"
            /\ fpc' = "finally"
       \/ /\ fpc' = "except"
          /\ UNCHANGED <<page_source, pending>>
    /\ UNCHANGED <<calls, attempt, driver_attempt, driver, live, navs,
                   scroll_attempts, previous_item_count, result, nav_block,
                   scrolled, scroll_block, init_failed, counts>>
    /\ UNCHANGED run_vars

\* "except Exception as e" (219-225): the loop goes on when attempts are
\* left, else return None.
Except ==
    /\ fpc = "except"
    /\ pending' = IF retry(attempt) THEN "continue" ELSE "return_none"
    /\ fpc' = "finally"
    /\ UNCHANGED <<calls, attempt, driver_attempt, driver, live, navs,
                   scroll_attempts, previous_item_count, page_source, result,
                   nav_block, scrolled, scroll_block, init_failed, counts>>
    /\ UNCHANGED run_vars

\* The finally clause (226-232): driver.quit() when there is a driver, an
\* exception of quit being swallowed; then what was pending.
Finally ==
    /\ fpc = "finally"
    /\ live' = IF finally_quits(driver) THEN quit(live, driver) ELSE live
    /\ CASE pending = "continue"    -> NextAttempt
         [] pending = "return_none" -> attempt' = attempt /\ FetchReturn(NoPage)
         [] pending = "return_html" ->
                attempt' = attempt /\ FetchReturn(Page(page_source))
    /\ counts' = <<>>
    /\ UNCHANGED <<driver_attempt, driver, navs, scroll_attempts,
                   previous_item_count, pending, page_source, nav_block,
                   scrolled, scroll_block, init_failed>>
    /\ UNCHANGED run_vars

NextFetch ==
    \/ FetchCall
    \/ FindChromeDriver
    \/ InitWebDriver
    \/ Navigate
    \/ Scroll
    \/ PageSource
    \/ Except
    \/ Finally

SpecFetch == InitFetch /\ [][NextFetch]_vars

\* fetch_page is sequential code whose waits have timeouts: it always takes
\* its next step
SpecFetchLive == SpecFetch /\ WF_vars(NextFetch)

(***************************************************************************)
(* Claims about a run of main, under Spec.                                  *)
(***************************************************************************)
AfterLoop == pc \in {"compare", "compared", "saved", "done"}

AfterCompare == pc \in {"compared", "saved", "done"}

\* the number of removed events compare returned for record r of partition k
RemovedCount(k, r) ==
    Cardinality({x \in DOMAIN (IF k \in DOMAIN changes THEN changes[k] ELSE <<>>) :
                    /\ changes[k][x].type = "removed"
                    /\ changes[k][x].item = r})

\* C2, as stated: when the fetch of a configured partition fails on every
\* attempt, its key is absent from the current snapshot handed to compare,
\* and no removed event is emitted for a record the previous snapshot
\* stores under it.
C2_FailedPartitionAbsent ==
    AfterCompare =>
        \A k \in failed :
            /\ k \notin DOMAIN curr_data
            /\ \A i \in DOMAIN prev_get(prev_data, k) :
                    RemovedCount(k, prev_get(prev_data, k)[i]) = 0

\* C2, amended: its key is in the current snapshot handed to compare, with
\* an empty list, and a removed event is emitted for every record the
\* previous snapshot stores under it with a part of valid_parts (and for no
\* other record).
C2_FailedPartitionEmptied ==
    AfterCompare =>
        \A k \in failed :
            /\ k \in DOMAIN curr_data
            /\ curr_data[k] = <<>>
            /\ \A i \in DOMAIN prev_get(prev_data, k) :
                LET r == prev_get(prev_data, k)[i]
                IN  RemovedCount(k, r) =
                        IF Get(r, "part", "") \in valid_parts THEN 1 ELSE 0

C2_Witness ==
    /\ pc = "done"
    /\ \E k \in failed :
        /\ k \in DOMAIN prev_data
        /\ Len(prev_data[k]) = 2
        /\ RemovedCount(k, prev_data[k][1]) = 1
        /\ RemovedCount(k, prev_data[k][2]) = 0

\* C3: when fetch_page returns None or scrape raises for a configured
\* partition, main records an empty list under its key and goes on with
\* the next scraper; when the loop has ended, every configured key is in
\* the current snapshot.
C3_FailureRecordsEmptyList ==
    /\ \A k \in failed \cup raised :
            k \in DOMAIN curr_data /\ curr_data[k] = <<>>
    /\ pc # "load" =>
            DOMAIN curr_data = {Key(Configured[i]) : i \in 1..idx}
    /\ AfterLoop =>
            idx = Len(Configured) /\ DOMAIN curr_data = ConfiguredKeys

C3_Witness ==
    /\ pc = "done"
    /\ Key(Configured[1]) \in failed
    /\ Key(Configured[2]) \in raised
    /\ curr_data[Key(Configured[3])] # <<>>

(***************************************************************************)
(* Claims about compare.                                                    *)
(***************************************************************************)
Compared == pc = "compared"

\* the event list compare returned for partition k
Events(k) == IF k \in DOMAIN changes THEN changes[k] ELSE <<>>

Count(events, P(_)) == Cardinality({i \in DOMAIN events : P(events[i])})

EventUrl(e) == IF e.type = "price_change" THEN e.url ELSE e.item.url

IsRemoved(e, r) == e.type = "removed" /\ e.item = r

IsNew(e, r) == e.type = "new" /\ e.item = r

\* the urls of partition k of curr, none when curr has no such partition
CurrUrls(k) == IF k \in DOMAIN curr_data THEN Urls(curr_data[k]) ELSE {}

C4_RemovedForEveryGone ==
    Compared =>
        \A k \in DOMAIN prev_data : \A i \in DOMAIN prev_data[k] :
            LET r == prev_data[k][i]
                carries(e) == IsRemoved(e, r)
            IN  (r.url \notin CurrUrls(k) /\ Get(r, "part", "") \in valid_parts)
                    => Count(Events(k), carries) = 1

\* C4, amended: the same for the partitions that curr has; a partition that
\* only prev has yields no event.
C4_RemovedForGoneInCurrPartition ==
    Compared =>
        \A k \in DOMAIN prev_data \cap DOMAIN curr_data :
            \A i \in DOMAIN prev_data[k] :
                LET r == prev_data[k][i]
                    carries(e) == IsRemoved(e, r)
                IN  (r.url \notin CurrUrls(k)
                        /\ Get(r, "part", "") \in valid_parts)
                        => Count(Events(k), carries) = 1

C4_Witness ==
    /\ Compared
    /\ \E k \in DOMAIN prev_data \cap DOMAIN curr_data :
        /\ curr_data[k] # <<>>
        /\ \E i \in DOMAIN prev_data[k] :
            /\ prev_data[k][i].url \notin CurrUrls(k)
            /\ Get(prev_data[k][i], "part", "") \in valid_parts
            /\ Events(k)[Len(Events(k))] =
                   [type |-> "removed", item |-> prev_data[k][i]]

\* C5: every record of curr whose url does not occur in the same partition
\* of prev yields exactly one new event carrying it, and that is the only
\* event about its url.
C5_NewForEveryAdded ==
    Compared =>
        \A k \in DOMAIN curr_data : \A i \in DOMAIN curr_data[k] :
            LET r == curr_data[k][i]
                carries(e) == IsNew(e, r)
                about(e) == EventUrl(e) = r.url
            IN  r.url \notin Urls(prev_get(prev_data, k))
                    => /\ Count(Events(k), carries) = 1
                       /\ Count(Events(k), about) = 1

C5_Witness ==
    /\ Compared
    /\ \E k \in DOMAIN curr_data \cap DOMAIN prev_data :
        /\ prev_data[k] # <<>>
        /\ \E i \in DOMAIN curr_data[k] :
            /\ curr_data[k][i].url \notin Urls(prev_data[k])
            /\ Events(k)[1] = [type |-> "new", item |-> curr_data[k][i]]

\* C6: a url in the same partition of both snapshots whose price_new values
\* are not exactly equal ("40.00" and "40.0" are not) yields exactly one
\* price_change event, with old the previous price_new and new the current
\* price_new, both as stored.
C6_PriceChange ==
    Compared =>
        \A k \in DOMAIN curr_data \cap DOMAIN prev_data :
            \A i \in DOMAIN curr_data[k] : \A j \in DOMAIN prev_data[k] :
                LET c == curr_data[k][i]
                    p == prev_data[k][j]
                    change(e) == e.type = "price_change" /\ e.url = c.url
                    verbatim(e) ==
                        /\ change(e)
                        /\ e.old = Get(p, "price_new", None)
                        /\ e.new = c.price_new
                IN  (c.url = p.url /\ c.price_new # Get(p, "price_new", None))
                        => /\ Count(Events(k), change) = 1
                           /\ Count(Events(k), verbatim) = 1

C6_Witness ==
    /\ Compared
    /\ \E k \in DOMAIN curr_data \cap DOMAIN prev_data :
        \E i \in DOMAIN curr_data[k] : \E j \in DOMAIN prev_data[k] :
            /\ curr_data[k][i].url = prev_data[k][j].url
            /\ curr_data[k][i].price_new = "40.0"
            /\ Get(prev_data[k][j], "price_new", None) = "40.00"
            /\ \E x \in DOMAIN Events(k) :
                /\ Events(k)[x].type = "price_change"
                /\ Events(k)[x].old = "40.00" /\ Events(k)[x].new = "40.0"

\* C7: a record of prev whose stored part is outside {Decks, Wheels, Trucks,
\* Bearings}, or that has no part, never yields a removed event, also when
\* its url is absent from curr.
C7_NoRemovedOutOfScope ==
    Compared =>
        \A k \in DOMAIN prev_data : \A i \in DOMAIN prev_data[k] :
            LET r == prev_data[k][i]
                carries(e) == IsRemoved(e, r)
            IN  Get(r, "part", "") \notin valid_parts
                    => Count(Events(k), carries) = 0

C7_Witness ==
    /\ Compared
    /\ \E k \in DOMAIN prev_data \cap DOMAIN curr_data :
        /\ Len(prev_data[k]) = 2
        /\ "part" \notin DOMAIN prev_data[k][1]
        /\ Get(prev_data[k][2], "part", "") = "Shoes"
        /\ Urls(prev_data[k]) \cap CurrUrls(k) = {}

\* curr and prev, read without compare, call for an event in partition k
HasEvent(k) ==
    LET prev_list == prev_get(prev_data, k)
    IN  \/ \E i \in DOMAIN curr_data[k] :
            curr_data[k][i].url \notin Urls(prev_list)
        \/ \E i \in DOMAIN curr_data[k] : \E j \in DOMAIN prev_list :
            /\ curr_data[k][i].url = prev_list[j].url
            /\ curr_data[k][i].price_new # Get(prev_list[j], "price_new", None)
        \/ \E j \in DOMAIN prev_list :
            /\ prev_list[j].url \notin Urls(curr_data[k])
            /\ Get(prev_list[j], "part", "") \in valid_parts

\* C8: the keys of the result are exactly the partition keys of curr that
\* have at least one event; no key maps to an empty list; a key only prev
\* has is no key of the result.
C8_KeysWithEvents ==
    Compared =>
        /\ DOMAIN changes = {k \in DOMAIN curr_data : HasEvent(k)}
        /\ \A k \in DOMAIN changes : changes[k] # <<>>
        /\ \A k \in DOMAIN prev_data \ DOMAIN curr_data :
                k \notin DOMAIN changes

C8_Witness ==
    /\ Compared
    /\ \E k \in DOMAIN curr_data :
        curr_data[k] # <<>> /\ k \notin DOMAIN changes
    /\ \E k \in DOMAIN prev_data \ DOMAIN curr_data :
        \E j \in DOMAIN prev_data[k] :
            Get(prev_data[k][j], "part", "") \in valid_parts

(***************************************************************************)
(* Claims about parse, under SpecParse.                                     *)
(***************************************************************************)

\* C9: for every scraper and every markup, the records one parse call has
\* collected (and returns) never hold the same url twice, also when the
\* markup offers the same product link several times.
C9_NoDuplicateUrl ==
    \A i, j \in DOMAIN products :
        i # j => products[i].url # products[j].url

\* The markup offered one link twice, both times in a candidate that passes
\* every filter, and parse returned.
C9_Witness ==
    /\ pc = "returned"
    /\ products # <<>>
    /\ \E i, j \in DOMAIN offered :
        /\ i < j
        /\ offered[i].url = offered[j].url
        /\ offered[i].accepted /\ offered[j].accepted

\* price text of a returned record that is a number (not None, not text,
\* not NaN)
Numeric(text) == float(text).kind = "num"

\* C10: for part Decks, in every scraper, every record parse returns has a
\* numeric sale price and a numeric original price, and (old - new) / old *
\* 100 rounded to the nearest integer is at least 10.
C10_DeckDiscount ==
    scraper.part = "Decks" =>
        \A i \in DOMAIN products :
            /\ Numeric(products[i].price_new)
            /\ Numeric(products[i].price_old)
            /\ float(products[i].price_old).cents > 0
            /\ RoundHalfEven((float(products[i].price_old).cents
                                - float(products[i].price_new).cents) * 100,
                             float(products[i].price_old).cents) >= 10

\* candidate i of the markup is one whose handling raised
Failed(i) == offered[i].raises # "no"

\* candidate i passes the filters: it is returned when parsed alone, and no
\* earlier candidate of the markup carries its link
PassesFilters(i) ==
    /\ offered[i].accepted
    /\ \A j \in 1..(i - 1) : offered[j].link => offered[j].url # offered[i].url

\* C11: in every scraper, when handling one candidate of the markup raises,
\* parse does not raise, the failing candidate adds no record, and every
\* other candidate that passes the filters adds its record to the result.
C11_ItemFailureCaught ==
    /\ pc # "raised"
    /\ \A i \in DOMAIN offered :
        /\ Failed(i) => ~offered[i].added
        /\ (~Failed(i) /\ PassesFilters(i)) => offered[i].added

(***************************************************************************)
(* Claims about the load, save and report steps of main.                    *)
(***************************************************************************)
\* the positions of step in the log of main
Steps(step) == {i \in DOMAIN log : log[i] = step}

UsableByCompare(prev) ==
    \A k \in DOMAIN prev :
        \A i \in DOMAIN prev[k] : "url" \in DOMAIN prev[k][i]

C19_SaveNeverRaises ==
    Steps("save") # {} =>
        /\ pc \in {"saved", "done"}
        /\ writes # <<>>
        /\ writes[1].op = "primary"
        /\ writes[1].ok => Len(writes) = 1
        /\ ~writes[1].ok =>
            /\ Len(writes) >= 2
            /\ writes[2].op = "tmp"
            /\ ~writes[2].ok => Len(writes) = 2
            /\ writes[2].ok => Len(writes) = 3 /\ writes[3].op = "copy"
        /\ saved = IF writes[Len(writes)].ok THEN "True" ELSE "False"

\* The write to the path and the copy back failed, and the run ended.
C19_Witness ==
    /\ pc = "done"
    /\ Len(writes) = 3 /\ ~writes[3].ok
    /\ saved = "False"

\* C20: in a run the state file is loaded once, as the first step; it is
\* saved once, after one loop iteration for every configured scraper and
\* after compare, which is computed on the snapshot that was loaded; what
\* is written is the current snapshot of this run, and it is what the
\* file holds when the save succeeded.
C20_LoadOnceSaveOnce ==
    /\ Cardinality(Steps("load")) <= 1
    /\ log # <<>> => log[1] = "load"
    /\ Cardinality(Steps("save")) <= 1
    /\ \A i \in Steps("save") :
        /\ i = Len(Configured) + 3
        /\ log[i - 1] = "compare"
        /\ \A j \in 2..(i - 2) : log[j] = "scrape"
    /\ pc = "compared" =>
        /\ prev_data = load_previous(state_file).value
        /\ changes = compare(load_previous(state_file).value, curr_data)
    /\ pc = "done" => Steps("save") # {}
    /\ Steps("save") # {} =>
        /\ DOMAIN curr_data = ConfiguredKeys
        /\ \A i \in DOMAIN writes : writes[i].content = Json(curr_data)
        /\ saved = "True" => state_file = Json(curr_data)

\* A run that loaded a snapshot, found changes against it and replaced it.
C20_Witness ==
    /\ pc = "done"
    /\ prev_data # Empty /\ changes # Empty
    /\ saved = "True"
    /\ state_file = Json(curr_data)
    /\ curr_data # prev_data

(***************************************************************************)
(* Claims about fetch_page, under SpecFetch and SpecFetchLive.              *)
(***************************************************************************)
\* the call of fetch_page has returned
Returned == fpc = "idle" /\ calls > 0

\* what fetch_page may return: None, or the markup of the page
FetchResults == {NoPage} \cup {Page(m) : m \in MainMarkups}

\* C13: a call of fetch_page makes at most max_retries = 3 attempts and at
\* most 3 navigations; it returns the markup or None, None before the third
\* attempt only after a stash url met while scrolling (C16); and every call
\* returns.
C13_FetchBounded ==
    /\ [](/\ attempt < max_retries
          /\ navs <= max_retries
          /\ Returned =>
               /\ result \in FetchResults
               /\ (result = NoPage /\ scroll_block = -1)
                      => attempt = max_retries - 1)
    /\ (fpc # "idle" ~> fpc = "idle")

\* A call in which each of the three attempts navigated and failed.
C13_Witness ==
    /\ Returned
    /\ result = NoPage
    /\ attempt = 2 /\ navs = 3
    /\ scroll_block = -1

\* C14: quit has been called on every browser session an attempt of
\* fetch_page created when the attempt is over, however it ended, and so
\* when fetch_page returns.
C14_SessionsTornDown ==
    fpc \in {"idle", "attempt", "init"} => live = {}

\* A call has returned the markup after an attempt that met the stash url
\* after the navigation and an attempt that scrolled.
C14_Witness ==
    /\ Returned
    /\ result # NoPage
    /\ nav_block = {0}
    /\ scrolled = {1}

\* C15: at every point of a run at most one browser session is live, and it
\* is the session of the attempt in progress; the driver an attempt uses is
\* the session that attempt created.
C15_OneSession ==
    /\ Cardinality(live) <= 1
    /\ live \subseteq {Session(calls, attempt)}
    /\ fpc \in {"get", "scroll", "source"} => driver = Session(calls, attempt)

\* The second attempt of the second call has its session.
C15_Witness ==
    /\ calls = 1 /\ attempt = 1
    /\ fpc = "scroll"
    /\ live = {Session(1, 1)}

\* C16: once the stash url was met after a scroll, fetch_page starts no
\* further attempt and returns None.
C16_ScrollBlockReturns ==
    scroll_block # -1 =>
        /\ attempt = scroll_block
        /\ Returned => result = NoPage

\* C17: an attempt that met the stash url after the navigation does not
\* scroll and does not return the markup; when fetch_page has returned,
\* a later attempt was made if it was not the last one, and None was
\* returned if no later attempt returned the markup.
C17_NavBlockRetries ==
    \A a \in nav_block :
        /\ a \notin scrolled
        /\ a = attempt => fpc \in {"except", "finally", "idle"}
        /\ Returned =>
            /\ a < max_retries - 1 => attempt > a
            /\ a = attempt => result = NoPage

\* The first two attempts met the stash url after the navigation, the
\* third returned the markup.
C17_Witness ==
    /\ Returned
    /\ nav_block = {0, 1}
    /\ attempt = 2
    /\ result # NoPage

(***************************************************************************)
(* Claims about the order and the fields of compare                        *)
(***************************************************************************)
\* the place in list of its record with this url
Pos(list, url) == CHOOSE i \in DOMAIN list : list[i].url = url

\* C28: in the event list compare returns for a partition, no removed event
\* comes before a new or price_change event, the new and price_change
\* events are in the order of their records in curr, and the removed
\* events are in the order of their records in prev.
C28_EventOrder ==
    Compared =>
        \A k \in DOMAIN changes : \A i, j \in DOMAIN changes[k] :
            LET ei == changes[k][i]
                ej == changes[k][j]
            IN  i < j =>
                  /\ ei.type = "removed" => ej.type = "removed"
                  /\ (ei.type # "removed" /\ ej.type # "removed") =>
                        Pos(curr_data[k], EventUrl(ei))
                            < Pos(curr_data[k], EventUrl(ej))
                  /\ (ei.type = "removed" /\ ej.type = "removed") =>
                        Pos(prev_data[k], ei.item.url)
                            < Pos(prev_data[k], ej.item.url)

\* A partition with a record that is new and a stored record that is gone:
\* the new event, then the removed event.
C28_Witness ==
    /\ Compared
    /\ \E k \in DOMAIN changes :
        /\ Len(changes[k]) = 2
        /\ changes[k][1].type = "new"
        /\ changes[k][2].type = "removed"

\* C29: compare returns no event for a url that a partition has in both
\* snapshots with the same price_new, whatever the other fields of the two
\* records are.
C29_OnlyPriceCompared ==
    Compared =>
        \A k \in DOMAIN curr_data \cap DOMAIN prev_data :
            \A i \in DOMAIN curr_data[k] : \A j \in DOMAIN prev_data[k] :
                (/\ curr_data[k][i].url = prev_data[k][j].url
                 /\ "price_new" \in DOMAIN prev_data[k][j]
                 /\ curr_data[k][i].price_new = prev_data[k][j].price_new)
                => \A x \in DOMAIN Events(k) :
                       EventUrl(Events(k)[x]) # curr_data[k][i].url

\* Both snapshots have the url with the same sale price, under records that
\* differ in name, original price, availability, part and store, and
\* compare returned no event.
C29_Witness ==
    /\ Compared
    /\ changes = Empty
    /\ \E k \in DOMAIN curr_data \cap DOMAIN prev_data :
        \E i \in DOMAIN curr_data[k] : \E j \in DOMAIN prev_data[k] :
            LET it == curr_data[k][i]
                pi == prev_data[k][j]
            IN  /\ it.url = pi.url
                /\ DOMAIN pi = DOMAIN it
                /\ it.price_new = pi.price_new
                /\ it.name # pi.name /\ it.price_old # pi.price_old
                /\ it.availability # pi.availability
                /\ it.part # pi.part /\ it.store # pi.store

(***************************************************************************)
(* Claims about the category filters and the duplicates of parse           *)
(***************************************************************************)
\* C22: for part Wheels, in every scraper, every record parse has collected
\* has a name that contains Bones, Powell, Spitfire or OJ.
C22_WheelsBrand ==
    scraper.part = "Wheels" =>
        \A i \in DOMAIN products :
            \E b \in {"Bones", "Powell", "Spitfire", "OJ"} :
                In(b, products[i].name)

\* A Wheels parse returned one record although the markup had two
\* candidates with a link, a name and a price under different urls.
C22_Witness ==
    /\ pc = "returned"
    /\ scraper.part = "Wheels"
    /\ Len(products) = 1
    /\ Len(offered) = 2
    /\ offered[1].url # offered[2].url
    /\ offered[1].accepted /\ offered[1].added
    /\ offered[2].link /\ ~offered[2].accepted /\ offered[2].raises = "no"

\* C23, as stated: for part Trucks, in every scraper, every record parse
\* has collected has a name that contains Independent, Indy or Ace.
C23_TrucksBrand ==
    scraper.part = "Trucks" =>
        \A i \in DOMAIN products :
            \E b \in {"Independent", "Indy", "Ace"} :
                In(b, products[i].name)

\* C27, as stated: in every scraper, when parse has returned, every url that
\* a candidate of the markup carries which passes all filters is the url of
\* a returned record, whatever the earlier candidates with that url were.
C27_LaterDuplicateReturned ==
    pc = "returned" =>
        \A i \in DOMAIN offered :
            offered[i].accepted =>
                \E p \in DOMAIN products : products[p].url = offered[i].url

Persisted == json_load(state_file.data)

C24_InitBounded ==
    /\ driver_attempt < 3
    /\ \A a \in init_failed :
        /\ a = attempt =>
            /\ fpc \in {"except", "finally", "idle"}
            /\ driver = NoDriver
            /\ driver_attempt = 2
        /\ Returned =>
            /\ a < max_retries - 1 => attempt > a
            /\ a = attempt => result = NoPage

\* The session could not be created in the first two attempts, three tries
\* each; the third attempt returned the markup.
C24_Witness ==
    /\ Returned
    /\ init_failed = {0, 1}
    /\ attempt = 2
    /\ result # NoPage

\* the stop test holds after scroll j of an attempt whose scrolls found the
\* counts c
Stops(c, j) == j > 1 /\ c[j] = c[j - 1] /\ c[j] > 0

\* C25: the scroll loop of an attempt makes at most 3 scrolls; it goes on
\* to a further scroll only when no scroll so far found the count of the
\* scroll before it, greater than 0; it ends after fewer than 3 scrolls only
\* when the last one found such a count, so never after the first scroll,
\* and never before the third when every count is 0.
C25_ScrollLoop ==
    /\ Len(counts) <= 3
    /\ fpc = "scroll" =>
        /\ Len(counts) < 3
        /\ \A j \in DOMAIN counts : ~Stops(counts, j)
    /\ fpc = "source" =>
        /\ Len(counts) >= 2
        /\ Len(counts) < 3 => Stops(counts, Len(counts))
        /\ \A j \in 1..(Len(counts) - 1) : ~Stops(counts, j)
        /\ (\A j \in DOMAIN counts : counts[j] = 0) => Len(counts) = 3

\* The loop ended after the second scroll, which found the one element the
\* first had found.
C25_Witness ==
    /\ fpc = "source"
    /\ counts = <<1, 1>>


\* C30, as stated: save_current returns True if and only if, when it
\* returns, the state file holds the serialized current snapshot.
C30_TrueIffPathHolds ==
    pc \in {"saved", "done"} =>
        (saved = "True" <=> state_file = Json(curr_data))

\* C30, amended: when save_current returns True, the state file holds the
\* serialized current snapshot; it returns True if and only if the write to
\* the path, or the write to the scratch location and the copy back,
\* succeeded, and False when the copy back failed.
C30_TrueOnlyIfPathHolds ==
    pc \in {"saved", "done"} =>
        /\ saved = "True" => state_file = Json(curr_data)
        /\ saved = "True" <=>
              \/ writes[1].ok
              \/ Len(writes) = 3 /\ writes[2].ok /\ writes[3].ok
        /\ (Len(writes) = 3 /\ ~writes[3].ok) => saved = "False"

\* The write to the path failed, the snapshot with a record was written to
\* the scratch location and copied back, and save_current returned True.
C30_Witness ==
    /\ pc = "saved"
    /\ saved = "True"
    /\ Len(writes) = 3 /\ ~writes[1].ok /\ writes[3].ok
    /\ \E k \in DOMAIN curr_data : curr_data[k] # <<>>
    /\ state_file = Json(curr_data)

====
